---------------------------- MODULE Spec2Model ----------------------------
(***************************************************************************)
(* A model of the Yaxploit TLS server (src/tls_server.py) and TLS client   *)
(* (src/tls_client.py): server start-up, the accept loop, one handler      *)
(* thread per accepted connection with its line-oriented command loop, and *)
(* the client's connect / send / disconnect life cycle.                    *)
(*                                                                         *)
(* A text (a str or a bytes value) is a sequence of atoms.  An atom is a   *)
(* one-character string, or a whole fixed literal of the program (a piece  *)
(* of a response) kept as one string, or BadByte, a byte that is not valid *)
(* UTF-8.                                                                  *)
(***************************************************************************)
EXTENDS Integers, Sequences, FiniteSets, TLC

(***************************************************************************)
(* Bounds of the model.                                                    *)
(***************************************************************************)
MaxConns == 2
MaxReqs == 2
MaxFaults == 1
MaxHistory == 4

Conns == 1..MaxConns

(***************************************************************************)
(* Text helpers: what str.lower, str.strip, str.startswith, slicing and    *)
(* bytes.decode('utf-8') do on the alphabet of the model.                  *)
(***************************************************************************)
NL == "\n"
BadByte == "0xFF"

Whitespace == {" ", "\t", "\n", "\r"}

LowerChar(ch) ==
    CASE ch = "A" -> "a" [] ch = "B" -> "b" [] ch = "C" -> "c"
      [] ch = "E" -> "e" [] ch = "H" -> "h" [] ch = "I" -> "i"
      [] ch = "L" -> "l" [] ch = "O" -> "o" [] ch = "P" -> "p"
      [] ch = "Q" -> "q" [] ch = "S" -> "s" [] ch = "T" -> "t"
      [] ch = "U" -> "u" [] ch = "X" -> "x"
      [] OTHER -> ch

Lower(s) == [i \in 1..Len(s) |-> LowerChar(s[i])]

RECURSIVE LStrip(_)
LStrip(s) ==
    IF s # <<>> /\ Head(s) \in Whitespace THEN LStrip(Tail(s)) ELSE s

RECURSIVE RStrip(_)
RStrip(s) ==
    IF s # <<>> /\ s[Len(s)] \in Whitespace
    THEN RStrip(SubSeq(s, 1, Len(s) - 1))
    ELSE s

Strip(s) == RStrip(LStrip(s))

StartsWith(s, p) == Len(s) >= Len(p) /\ SubSeq(s, 1, Len(p)) = p

\* s[n:] of Python: everything after the first n characters
Drop(s, n) == IF Len(s) <= n THEN <<>> ELSE SubSeq(s, n + 1, Len(s))

Decodable(data) == \A i \in 1..Len(data) : data[i] # BadByte

\* data.decode('utf-8') of a decodable value: the same characters
Decode(data) == [i \in 1..Len(data) |-> data[i]]

(***************************************************************************)
(* The literals of the command loop.                                       *)
(***************************************************************************)
QuitWord == <<"q", "u", "i", "t">>
EchoPrefix == <<"e", "c", "h", "o", " ">>
StatusWord == <<"s", "t", "a", "t", "u", "s">>
HelpWord == <<"h", "e", "l", "p">>

Farewell == <<"Goodbye! Connection closed.", NL>>

StatusMsg == <<"Server status: OK", NL, "Connected clients: Active", NL>>

HelpMsg ==
    << "Available commands:", NL,
       "  echo <message> - Echo back your message", NL,
       "  status - Check server status", NL,
       "  help - Show this help message", NL,
       "  quit - Disconnect from server", NL >>

UnknownMsg(message) ==
    <<"Unknown command: ">> \o message
        \o <<". Type 'help' for available commands.", NL>>

EchoMsg(message) == Drop(message, 5) \o <<NL>>

\* addr[0] of the accepted connection
Addr(c) == IF c = 1 THEN "ip1" ELSE IF c = 2 THEN "ip2" ELSE "ip3"

WelcomeMsg(c) ==
    << "Welcome to Yaxploit TLS Server! Connection secured.", NL,
       "Your IP: ", Addr(c), NL >>

(***************************************************************************)
(* Sizes in bytes, and recv(1024): a read returns at most 1024 bytes of    *)
(* the chunk that is waiting and leaves the rest of it for the next read.  *)
(* Blob is a run of 1019 characters x, so that `echo ` and Blob together   *)
(* fill one read exactly; the cut of a read never falls inside an atom of  *)
(* the texts used here.                                                    *)
(***************************************************************************)
Blob == "x * 1019"

RecvSize == 1024

Size(a) ==
    CASE a = Blob -> 1019
      [] a \in {"ip1", "ip2", "ip3"} -> 9
      [] a = "Goodbye! Connection closed." -> 27
      [] a = "Server status: OK" -> 17
      [] a = "Connected clients: Active" -> 25
      [] a = "Available commands:" -> 19
      [] a = "  echo <message> - Echo back your message" -> 41
      [] a = "  status - Check server status" -> 30
      [] a = "  help - Show this help message" -> 31
      [] a = "  quit - Disconnect from server" -> 31
      [] a = "Unknown command: " -> 17
      [] a = ". Type 'help' for available commands." -> 37
      [] a = "Welcome to Yaxploit TLS Server! Connection secured." -> 51
      [] a = "Your IP: " -> 9
      [] OTHER -> 1

RECURSIVE TextSize(_)
TextSize(s) == IF s = <<>> THEN 0 ELSE Size(Head(s)) + TextSize(Tail(s))

\* the number of leading atoms of s that fit into n bytes
RECURSIVE Fit(_, _)
Fit(s, n) ==
    IF s = <<>> \/ Size(Head(s)) > n THEN 0
    ELSE 1 + Fit(Tail(s), n - Size(Head(s)))

\* what a read of at most n bytes returns of the chunk s, and what it leaves
Take(s, n) == SubSeq(s, 1, Fit(s, n))
Rest(s, n) == SubSeq(s, Fit(s, n) + 1, Len(s))

\* a variant that does not strip the decoded text
ParseMessageRaw(data) == Decode(data)

\* message = data.decode('utf-8').strip()
ParseMessage(data) == Strip(Decode(data))

IsQuit(message) == Lower(message) = QuitWord

\* a variant that compares the verbs as they were typed
RespondCaseSensitive(message) ==
    IF StartsWith(message, EchoPrefix) THEN EchoMsg(message)
    ELSE IF message = StatusWord THEN StatusMsg
    ELSE IF message = HelpWord THEN HelpMsg
    ELSE UnknownMsg(message)

\* the if / elif chain that follows the quit test
Respond(message) ==
    IF StartsWith(Lower(message), EchoPrefix) THEN EchoMsg(message)
    ELSE IF Lower(message) = StatusWord THEN StatusMsg
    ELSE IF Lower(message) = HelpWord THEN HelpMsg
    ELSE UnknownMsg(message)

\* what the handler writes for a message, the quit test included
Reply(message) == IF IsQuit(message) THEN Farewell ELSE Respond(message)


(***************************************************************************)
(* State.                                                                  *)
(***************************************************************************)
VARIABLES
    files,       \* server working directory: file name -> "absent" | "good" | "bad"
    spc,         \* position of the server's main thread
    context,     \* self.context of the server
    is_running,  \* self.is_running
    listener,    \* server_socket: "none" | "listening" | "closed"
    cstate,      \* per connection: "unused" | "pending" | "accepted" | "aborted"
    peerCert,    \* certificate the peer presents: "valid" | "none" | "untrusted"
    inbox,       \* data written by the peer and not yet read by the handler
    peerShut,    \* the peer has closed its write side
    broken,      \* the transport is broken (reset by the peer, network failure)
    peerWrites,  \* number of writes of all peers so far
    hpc,         \* position of the handler thread of the connection
    ssl_conn,    \* the handler's local ssl_conn: "None" | "set"
    sock,        \* the accepted transport handle: "none" | "open" | "closed"
    closes,      \* number of close() calls that reached the transport handle
    message,     \* the handler's local message
    exitKind,    \* why the handler left its loop
    log,         \* per connection: the reads and writes of the server side
    cpc,         \* position of the client process
    mode,        \* client invocation: "none" | "help" | "single" | "interactive"
    ssl_socket,  \* client self.ssl_socket: "None" | "set"
    csock,       \* the client's transport handle: "none" | "open" | "closed"
    ccloses,     \* number of close() calls on the client's transport handle
    cread,       \* number of server writes the client has consumed
    typed,       \* number of lines the operator has entered
    ccmd,        \* the client's current command (user_input, command)
    connected,   \* what connect_to_server returned: "none" | "true" | "false"
    cresp,       \* what send_message returned, one entry per call
    csent,       \* the message given to send_message, one entry per call
    cfiles,      \* client working directory: file name -> "absent" | "good" | "bad"
    ccontext     \* self.context of the client

srvVars == <<files, spc, context, is_running, listener>>
envVars == <<cstate, peerCert, inbox, peerShut, broken, peerWrites>>
hVars == <<hpc, ssl_conn, sock, closes, message, exitKind, log>>
cfgVars == <<cfiles, ccontext>>
cliVars ==
    <<cpc, mode, ssl_socket, csock, ccloses, cread, typed, ccmd, connected, cresp,
      csent, cfgVars>>
vars == <<srvVars, envVars, hVars, cliVars>>

FileNames == {"server.crt", "server.key", "client.crt"}
FileStates == {"absent", "good", "bad"}

Recv(data) == [ev |-> "recv", data |-> data]
Send(data) == [ev |-> "send", data |-> data]

\* the writes and the reads of the server side of connection c, in order
Sends(c) == SelectSeq(log[c], LAMBDA e : e.ev = "send")
Reads(c) == SelectSeq(log[c], LAMBDA e : e.ev = "recv")

(***************************************************************************)
(* Server start-up: YaxploitTLSServer.__init__ and setup_ssl_context.      *)
(***************************************************************************)
NeedsGeneration(f) == f["server.crt"] = "absent" \/ f["server.key"] = "absent"

\* generate_self_signed_certificates: two openssl runs through os.system,
\* whose failure raises nothing; okS, okC say whether each run wrote its files
Generated(f, okS, okC) ==
    [n \in FileNames |->
        IF n \in {"server.crt", "server.key"} /\ okS THEN "good"
        ELSE IF n = "client.crt" /\ okC THEN "good"
        ELSE f[n]]

\* load_cert_chain('server.crt', 'server.key') and
\* load_verify_locations('client.crt') both succeed
Loadable(f) ==
    f["server.crt"] = "good" /\ f["server.key"] = "good" /\ f["client.crt"] = "good"

\* a variant whose context only asks for a client certificate
ServerContextOptional ==
    [protocol |-> "PROTOCOL_TLS_SERVER", verify_mode |-> "CERT_OPTIONAL",
     trust |-> "client.crt"]

\* self.context = None
NoContext == [protocol |-> "None", verify_mode |-> "None", trust |-> "None"]

\* the context setup_ssl_context configures
ServerContext ==
    [protocol |-> "PROTOCOL_TLS_SERVER", verify_mode |-> "CERT_REQUIRED",
     trust |-> "client.crt"]

\* a variant that leaves a failed load to be found at the first connection
ConstructLazy ==
    /\ spc = "ctor"
    /\ \E okS \in BOOLEAN, okC \in BOOLEAN :
         LET f1 == IF NeedsGeneration(files) THEN Generated(files, okS, okC)
                   ELSE files
         IN /\ files' = f1
            /\ context' = IF Loadable(f1) THEN ServerContext ELSE NoContext
            /\ spc' = "start"
    /\ UNCHANGED <<is_running, listener, envVars, hVars, cliVars>>

\* server = YaxploitTLSServer(...): is_running = False, then setup_ssl_context
Construct ==
    /\ spc = "ctor"
    /\ \E okS \in BOOLEAN, okC \in BOOLEAN :
         LET f1 == IF NeedsGeneration(files) THEN Generated(files, okS, okC)
                   ELSE files
         IN /\ files' = f1
            /\ IF Loadable(f1)
               THEN context' = ServerContext /\ spc' = "start"
               ELSE context' = NoContext /\ spc' = "exit1"    \* sys.exit(1)
    /\ UNCHANGED <<is_running, listener, envVars, hVars, cliVars>>

(***************************************************************************)
(* start_server.                                                           *)
(***************************************************************************)
\* is_running = True; socket(); bind(); listen(10)
StartListening ==
    /\ spc = "start"
    /\ is_running' = TRUE
    /\ listener' = "listening"
    /\ spc' = "accept"
    /\ UNCHANGED <<files, context, envVars, hVars, cliVars>>

\* bind() raises (address in use): except Exception, then the finally block
BindFails ==
    /\ spc = "start"
    /\ is_running' = FALSE
    /\ listener' = "closed"
    /\ spc' = "returned"
    /\ UNCHANGED <<files, context, envVars, hVars, cliVars>>

\* conn, addr = server_socket.accept(); Thread(...).start()
Accept(d) ==
    /\ spc = "accept"
    /\ is_running
    /\ listener = "listening"
    /\ cstate[d] = "pending"
    /\ cstate' = [cstate EXCEPT ![d] = "accepted"]
    /\ sock' = [sock EXCEPT ![d] = "open"]
    /\ hpc' = [hpc EXCEPT ![d] = "wrap"]
    /\ UNCHANGED <<srvVars, peerCert, inbox, peerShut, broken, peerWrites,
                   ssl_conn, closes, message, exitKind, log, cliVars>>

\* accept() raises for a connection that went away in the backlog:
\* except Exception: continue
AcceptError(d) ==
    /\ spc = "accept"
    /\ is_running
    /\ listener = "listening"
    /\ cstate[d] = "pending"
    /\ cstate' = [cstate EXCEPT ![d] = "aborted"]
    /\ UNCHANGED <<srvVars, peerCert, inbox, peerShut, broken, peerWrites,
                   hVars, cliVars>>

\* KeyboardInterrupt in the accept loop: break, and the with block closes
\* the listening socket
Interrupt ==
    /\ spc = "accept"
    /\ listener' = "closed"
    /\ spc' = "finally"
    /\ UNCHANGED <<files, context, is_running, envVars, hVars, cliVars>>

\* finally: self.is_running = False; start_server returns to main
ServerFinally ==
    /\ spc = "finally"
    /\ is_running' = FALSE
    /\ spc' = "returned"
    /\ UNCHANGED <<files, context, listener, envVars, hVars, cliVars>>

HandlerLive(c) == hpc[c] \notin {"none", "done", "killed"}

\* main returns and the interpreter exits: the handler threads are daemon
\* threads, nothing joins them, so the ones still running end with the
\* process, and the process's open handles are released by the system
ProcessExit ==
    /\ spc = "returned"
    /\ spc' = "exited"
    /\ hpc' = [c \in Conns |-> IF HandlerLive(c) THEN "killed" ELSE hpc[c]]
    /\ sock' = [c \in Conns |-> IF sock[c] = "open" THEN "closed" ELSE sock[c]]
    /\ UNCHANGED <<files, context, is_running, listener, envVars,
                   ssl_conn, closes, message, exitKind, log, cliVars>>

(***************************************************************************)
(* handle_client_connection: one thread per accepted connection.           *)
(***************************************************************************)
\* a variant in which the handlers share one connection attribute
SharedTransport(c) == IF c = 1 THEN 2 ELSE 1

\* ssl_conn is a local of the handler: the transport it reads, writes and
\* closes is the one wrapped around its own conn argument
OwnTransport(c) == c

\* the handshake inside wrap_socket(conn, server_side=True) under the
\* server context: with CERT_REQUIRED a peer without a certificate, or with
\* one that does not chain to the trust anchor, is rejected
HandshakeOk(c) ==
    /\ ~broken[c]
    /\ context # NoContext
    /\ context.verify_mode = "CERT_REQUIRED" => peerCert[c] = "valid"

\* ssl_conn = self.context.wrap_socket(conn, server_side=True); getpeercert.
\* A failed handshake raises out of wrap_socket, which closes the socket it
\* was given before raising; ssl_conn stays None and the outer except runs.
H_Wrap(c) ==
    /\ hpc[c] = "wrap"
    /\ IF HandshakeOk(c)
       THEN /\ ssl_conn' = [ssl_conn EXCEPT ![c] = "set"]
            /\ hpc' = [hpc EXCEPT ![c] = "welcome"]
            /\ UNCHANGED <<sock, closes, exitKind>>
       ELSE /\ sock' = [sock EXCEPT ![c] = "closed"]
            /\ closes' = [closes EXCEPT ![c] = @ + 1]
            /\ exitKind' = [exitKind EXCEPT ![c] = "handshake"]
            /\ hpc' = [hpc EXCEPT ![c] = "finally"]
            /\ UNCHANGED ssl_conn
    /\ UNCHANGED <<srvVars, envVars, message, log, cliVars>>

\* ssl_conn.send(welcome_msg.encode('utf-8')); a failed write raises to the
\* outer except
H_Welcome(c) ==
    /\ hpc[c] = "welcome"
    /\ IF broken[c]
       THEN /\ exitKind' = [exitKind EXCEPT ![c] = "error"]
            /\ hpc' = [hpc EXCEPT ![c] = "finally"]
            /\ UNCHANGED log
       ELSE /\ log' = [log EXCEPT ![OwnTransport(c)] = Append(@, Send(WelcomeMsg(c)))]
            /\ hpc' = [hpc EXCEPT ![c] = "loop"]
            /\ UNCHANGED exitKind
    /\ UNCHANGED <<srvVars, envVars, ssl_conn, sock, closes, message, cliVars>>

\* while self.is_running:
H_Loop(c) ==
    /\ hpc[c] = "loop"
    /\ IF is_running
       THEN hpc' = [hpc EXCEPT ![c] = "recv"] /\ UNCHANGED exitKind
       ELSE /\ hpc' = [hpc EXCEPT ![c] = "finally"]
            /\ exitKind' = [exitKind EXCEPT ![c] = "stopped"]
    /\ UNCHANGED <<srvVars, envVars, ssl_conn, sock, closes, message, log, cliVars>>

\* a variant without the zero-length test
IsEofNever(data) == FALSE

\* if not data: a zero-length read
IsEof(data) == data = <<>>

\* a variant whose error path clears the server-wide running flag
H_RecvErrorStopsServer(c) ==
    /\ hpc[c] = "recv"
    /\ broken[c]
    /\ exitKind' = [exitKind EXCEPT ![c] = "error"]
    /\ hpc' = [hpc EXCEPT ![c] = "finally"]
    /\ is_running' = FALSE
    /\ UNCHANGED <<files, spc, context, listener, envVars, ssl_conn, sock,
                   closes, message, log, cliVars>>

\* data = ssl_conn.recv(1024) raises on a broken transport
H_RecvError(c) ==
    /\ hpc[c] = "recv"
    /\ broken[c]
    /\ exitKind' = [exitKind EXCEPT ![c] = "error"]
    /\ hpc' = [hpc EXCEPT ![c] = "finally"]
    /\ UNCHANGED <<srvVars, envVars, ssl_conn, sock, closes, message, log, cliVars>>

\* the read returns data; the zero-length test; decode and strip
H_RecvData(c, data) ==
    /\ hpc[c] = "recv"
    /\ ~broken[c]
    /\ log' = [log EXCEPT ![OwnTransport(c)] = Append(@, Recv(data))]
    /\ IF IsEof(data)
       THEN /\ exitKind' = [exitKind EXCEPT ![c] = "eof"]
            /\ hpc' = [hpc EXCEPT ![c] = "finally"]
            /\ UNCHANGED message
       ELSE IF ~Decodable(data)
       THEN \* UnicodeDecodeError: except Exception, break
            /\ exitKind' = [exitKind EXCEPT ![c] = "error"]
            /\ hpc' = [hpc EXCEPT ![c] = "finally"]
            /\ UNCHANGED message
       ELSE /\ message' = [message EXCEPT ![c] = ParseMessage(data)]
            /\ hpc' = [hpc EXCEPT ![c] = "dispatch"]
            /\ UNCHANGED exitKind
    /\ UNCHANGED <<srvVars, cstate, peerCert, peerShut, broken, peerWrites,
                   ssl_conn, sock, closes, cliVars>>

\* recv(1024) returns the first 1024 bytes of the next chunk the peer wrote
\* (the whole chunk when it is no longer than that) and leaves the rest of
\* the chunk for the next read; it returns b'' once the peer has closed its
\* side and everything it wrote has been read
H_Recv(c) ==
    \/ H_RecvError(c)
    \/ /\ inbox[c] # <<>>
       /\ H_RecvData(c, Take(Head(inbox[c]), RecvSize))
       /\ inbox' = [inbox EXCEPT ![c] =
                        IF Rest(Head(@), RecvSize) = <<>> THEN Tail(@)
                        ELSE <<Rest(Head(@), RecvSize)>> \o Tail(@)]
    \/ /\ inbox[c] = <<>>
       /\ peerShut[c]
       /\ H_RecvData(c, <<>>)
       /\ UNCHANGED inbox

\* a variant that does not break after the farewell
AfterReplyNoBreak(m) == "loop"

\* where the loop goes after the write for a message: break for quit
AfterReply(m) == IF IsQuit(m) THEN "finally" ELSE "loop"

\* a variant whose status and help texts report the traffic of the session
H_DispatchCounting(c) ==
    /\ hpc[c] = "dispatch"
    /\ IF broken[c]
       THEN /\ exitKind' = [exitKind EXCEPT ![c] = "error"]
            /\ hpc' = [hpc EXCEPT ![c] = "finally"]
            /\ UNCHANGED log
       ELSE /\ log' = [log EXCEPT ![OwnTransport(c)] =
                           Append(@, Send(IF Lower(message[c]) \in {StatusWord, HelpWord}
                                          THEN Reply(message[c])
                                                 \o <<"Requests: ", ToString(Len(Reads(c))), NL>>
                                          ELSE Reply(message[c])))]
            /\ hpc' = [hpc EXCEPT ![c] = AfterReply(message[c])]
            /\ exitKind' = [exitKind EXCEPT ![c] =
                               IF AfterReply(message[c]) = "finally"
                               THEN "quit" ELSE @]
    /\ UNCHANGED <<srvVars, envVars, ssl_conn, sock, closes, message, cliVars>>

\* the quit test and the if / elif chain, each ending in one ssl_conn.send;
\* a failed write raises to the inner except, which breaks
H_Dispatch(c) ==
    /\ hpc[c] = "dispatch"
    /\ IF broken[c]
       THEN /\ exitKind' = [exitKind EXCEPT ![c] = "error"]
            /\ hpc' = [hpc EXCEPT ![c] = "finally"]
            /\ UNCHANGED log
       ELSE /\ log' = [log EXCEPT ![OwnTransport(c)] =
                           Append(@, Send(Reply(message[c])))]
            /\ hpc' = [hpc EXCEPT ![c] = AfterReply(message[c])]
            /\ exitKind' = [exitKind EXCEPT ![c] =
                               IF AfterReply(message[c]) = "finally"
                               THEN "quit" ELSE @]
    /\ UNCHANGED <<srvVars, envVars, ssl_conn, sock, closes, message, cliVars>>

\* a variant whose cleanup also clears the server-wide running flag
H_FinallyStopsServer(c) ==
    /\ hpc[c] = "finally"
    /\ IF ssl_conn[c] = "set"
       THEN /\ sock' = [sock EXCEPT ![OwnTransport(c)] = "closed"]
            /\ closes' = [closes EXCEPT ![OwnTransport(c)] = @ + 1]
       ELSE UNCHANGED <<sock, closes>>
    /\ hpc' = [hpc EXCEPT ![c] = "done"]
    /\ is_running' = FALSE
    /\ UNCHANGED <<files, spc, context, listener, envVars, ssl_conn, message,
                   exitKind, log, cliVars>>

\* a variant whose cleanup does not close the connection
H_FinallyNoClose(c) ==
    /\ hpc[c] = "finally"
    /\ hpc' = [hpc EXCEPT ![c] = "done"]
    /\ UNCHANGED <<srvVars, envVars, ssl_conn, sock, closes, message,
                   exitKind, log, cliVars>>

\* finally: if ssl_conn: ssl_conn.close()
H_Finally(c) ==
    /\ hpc[c] = "finally"
    /\ IF ssl_conn[c] = "set"
       THEN /\ sock' = [sock EXCEPT ![OwnTransport(c)] = "closed"]
            /\ closes' = [closes EXCEPT ![OwnTransport(c)] = @ + 1]
       ELSE UNCHANGED <<sock, closes>>
    /\ hpc' = [hpc EXCEPT ![c] = "done"]
    /\ UNCHANGED <<srvVars, envVars, ssl_conn, message, exitKind, log, cliVars>>

Handler(c) ==
    \/ H_Wrap(c)
    \/ H_Welcome(c)
    \/ H_Loop(c)
    \/ H_Recv(c)
    \/ H_Dispatch(c)
    \/ H_Finally(c)

(***************************************************************************)
(* The peers of the server: any TLS endpoint that connects to the port.    *)
(***************************************************************************)
CertKinds == {"valid", "none", "untrusted"}

\* a text that only the peer of connection d sends
Uniq(d) == IF d = 1 THEN "A" ELSE IF d = 2 THEN "B" ELSE "C"

L_quit == QuitWord \o <<NL>>
L_status == StatusWord \o <<NL>>
L_bad == <<BadByte, NL>>
L_echo(d) == EchoPrefix \o <<Uniq(d), NL>>

\* the lines the peer of connection d may write
ReqLines(d) == {L_quit, L_status, L_bad, L_echo(d)}

PeerConnect(d, cert) ==
    /\ listener = "listening"
    /\ cstate[d] = "unused"
    /\ cstate' = [cstate EXCEPT ![d] = "pending"]
    /\ peerCert' = [peerCert EXCEPT ![d] = cert]
    /\ UNCHANGED <<srvVars, inbox, peerShut, broken, peerWrites, hVars, cliVars>>

\* the peer writes one line once its handshake is through; a write after
\* the server side has closed reaches no reader
PeerWrite(d, line, max) ==
    /\ cstate[d] = "accepted"
    /\ ssl_conn[d] = "set"
    /\ ~peerShut[d]
    /\ ~broken[d]
    /\ peerWrites < max
    /\ peerWrites' = peerWrites + 1
    /\ inbox' = [inbox EXCEPT ![d] = Append(@, line)]
    /\ UNCHANGED <<srvVars, cstate, peerCert, peerShut, broken, hVars, cliVars>>

PeerSend(d, line) == PeerWrite(d, line, MaxReqs)

PeerShutdown(d) ==
    /\ cstate[d] = "accepted"
    /\ ssl_conn[d] = "set"
    /\ ~peerShut[d]
    /\ ~broken[d]
    /\ peerShut' = [peerShut EXCEPT ![d] = TRUE]
    /\ UNCHANGED <<srvVars, cstate, peerCert, inbox, broken, peerWrites, hVars, cliVars>>

TransportBreak(d) ==
    /\ cstate[d] = "accepted"
    /\ sock[d] = "open"
    /\ ~broken[d]
    /\ Cardinality({c \in Conns : broken[c]}) < MaxFaults
    /\ broken' = [broken EXCEPT ![d] = TRUE]
    /\ UNCHANGED <<srvVars, cstate, peerCert, inbox, peerShut, peerWrites, hVars, cliVars>>

Peer(d) ==
    \/ \E cert \in CertKinds : PeerConnect(d, cert)
    \/ \E line \in ReqLines(d) : PeerSend(d, line)
    \/ PeerShutdown(d)
    \/ TransportBreak(d)

(***************************************************************************)
(* The client's TLS context: YaxploitTLSClient.__init__ and                *)
(* setup_ssl_context of src/tls_client.py.                                 *)
(***************************************************************************)
ClientFileNames == {"client.crt", "client.key"}

\* what main passes to the constructor; host and port are all it takes
MainArgs == [host |-> "localhost", port |-> "8443"]

\* self.context = None
NoClientContext ==
    [protocol |-> "None", check_hostname |-> "None", verify_mode |-> "None",
     cert |-> "None"]

\* both files exist and load_cert_chain('client.crt', 'client.key') succeeds;
\* a missing file or a failed load only prints a warning
ClientCertLoaded(f) == f["client.crt"] = "good" /\ f["client.key"] = "good"

\* the context setup_ssl_context configures: check_hostname = False and
\* verify_mode = ssl.CERT_NONE, whatever the constructor was given
ClientContext(args, f) ==
    [protocol |-> "PROTOCOL_TLS_CLIENT", check_hostname |-> "False",
     verify_mode |-> "CERT_NONE",
     cert |-> IF ClientCertLoaded(f) THEN "loaded" ELSE "none"]

\* the certificates a client with this context can present at the
\* handshake: its own, which the server may or may not trust, or none
Presentable(ctx) ==
    IF ctx.cert = "loaded" THEN {"valid", "untrusted"} ELSE {"none"}

(***************************************************************************)
(* The server with its peers.                                              *)
(***************************************************************************)
ClientIdle ==
    /\ cpc = "none"
    /\ mode = "none"
    /\ ssl_socket = "None"
    /\ csock = "none"
    /\ ccloses = 0
    /\ cread = 0
    /\ typed = 0
    /\ ccmd = <<>>
    /\ connected = "none"
    /\ cresp = <<>>
    /\ csent = <<>>
    /\ cfiles = [n \in ClientFileNames |-> "absent"]
    /\ ccontext = NoClientContext

NoConnections ==
    /\ cstate = [c \in Conns |-> "unused"]
    /\ peerCert = [c \in Conns |-> "none"]
    /\ inbox = [c \in Conns |-> <<>>]
    /\ peerShut = [c \in Conns |-> FALSE]
    /\ broken = [c \in Conns |-> FALSE]
    /\ peerWrites = 0
    /\ hpc = [c \in Conns |-> "none"]
    /\ ssl_conn = [c \in Conns |-> "None"]
    /\ sock = [c \in Conns |-> "none"]
    /\ closes = [c \in Conns |-> 0]
    /\ message = [c \in Conns |-> <<>>]
    /\ exitKind = [c \in Conns |-> "none"]
    /\ log = [c \in Conns |-> <<>>]

Init ==
    /\ files \in [FileNames -> FileStates]
    /\ spc = "ctor"
    /\ context = NoContext
    /\ is_running = FALSE
    /\ listener = "none"
    /\ NoConnections
    /\ ClientIdle

ServerMain ==
    \/ Construct
    \/ StartListening
    \/ BindFails
    \/ \E d \in Conns : Accept(d)
    \/ \E d \in Conns : AcceptError(d)
    \/ Interrupt
    \/ ServerFinally
    \/ ProcessExit

Next ==
    \/ ServerMain
    \/ \E c \in Conns : Handler(c)
    \/ \E d \in Conns : Peer(d)

Spec == Init /\ [][Next]_vars

(***************************************************************************)
(* The client process: main, connect_to_server, send_message,              *)
(* single_command_mode, interactive_session and disconnect of              *)
(* src/tls_client.py, talking to the server over connection CliConn.       *)
(***************************************************************************)
CliConn == 1

\* send_message returned None
NoneResp == <<"None">>

T_quit == QuitWord
T_status == StatusWord
T_echo == EchoPrefix \o <<Uniq(CliConn)>>
T_blank == <<" ">>
T_long == EchoPrefix \o <<Blob>>

\* what the operator may type at the prompt, and the command of argv
TypedLines == {T_quit, T_status, T_echo, T_blank, T_long}
ArgvCommands == {T_quit, T_status, T_echo}

\* the server has written something the client has not read yet
Available == Len(Sends(CliConn)) > cread
NextWrite == Sends(CliConn)[cread + 1].data

\* the server side of the connection is gone and nothing is left to read
AtEof == ~Available /\ sock[CliConn] = "closed"

\* main: the help flag prints the usage and returns; otherwise the client
\* object is built (its constructor sets up the TLS context) and
\* connect_to_server is called
C_Start(m, cmd) ==
    /\ cpc = "main"
    /\ mode' = m
    /\ IF m = "help"
       THEN cpc' = "returned" /\ UNCHANGED <<ccmd, ccontext>>
       ELSE /\ cpc' = "connect"
            /\ ccontext' = ClientContext(MainArgs, cfiles)
            /\ ccmd' = IF m = "single" THEN cmd ELSE <<>>
    /\ UNCHANGED <<srvVars, envVars, hVars, ssl_socket, csock, ccloses,
                   cread, typed, connected, cresp, csent, cfiles>>

\* connect_to_server up to connect(): socket(), wrap_socket (self.ssl_socket
\* is set), connect.  A refused connection returns False, and main only
\* prints the failure.
C_Connect(cert) ==
    /\ cpc = "connect"
    /\ cert \in Presentable(ccontext)
    /\ ssl_socket' = "set"
    /\ csock' = "open"
    /\ IF listener = "listening" /\ cstate[CliConn] = "unused"
       THEN /\ cstate' = [cstate EXCEPT ![CliConn] = "pending"]
            /\ peerCert' = [peerCert EXCEPT ![CliConn] = cert]
            /\ cpc' = "handshake"
            /\ UNCHANGED connected
       ELSE /\ cpc' = "returned"          \* ConnectionRefusedError
            /\ connected' = "false"
            /\ UNCHANGED <<cstate, peerCert>>
    /\ UNCHANGED <<cfgVars, csent, srvVars, inbox, peerShut, broken,
                   peerWrites, hVars, mode, ccloses, cread, typed, ccmd,
                   cresp>>

\* the server side never completes the handshake: it rejected the peer,
\* the connection was dropped from the backlog, the transport broke, or the
\* server went away
HandshakeLost ==
    \/ exitKind[CliConn] = "handshake"
    \/ cstate[CliConn] = "aborted"
    \/ broken[CliConn]
    \/ cstate[CliConn] = "pending" /\ listener = "closed"
    \/ hpc[CliConn] = "killed" /\ ssl_conn[CliConn] = "None"

\* the handshake inside connect(), getpeercert, cipher.  A failure is caught
\* (ssl.SSLError or Exception) and returns False.
C_Handshake ==
    /\ cpc = "handshake"
    /\ \/ /\ ssl_conn[CliConn] = "set"
          /\ ~broken[CliConn]
          /\ cpc' = "welcome"
          /\ UNCHANGED connected
       \/ /\ HandshakeLost
          /\ cpc' = "returned"
          /\ connected' = "false"
    /\ UNCHANGED <<cfgVars, csent, srvVars, envVars, hVars, mode, ssl_socket,
                   csock, ccloses, cread, typed, ccmd, cresp>>

AfterConnect == IF mode = "single" THEN "send" ELSE "input"

\* welcome_message = self.ssl_socket.recv(1024).decode('utf-8'); return True
C_Welcome ==
    /\ cpc = "welcome"
    /\ \/ /\ ~broken[CliConn]
          /\ Available
          /\ cread' = cread + 1
          /\ cpc' = AfterConnect
          /\ connected' = "true"
       \/ /\ ~broken[CliConn]
          /\ AtEof                        \* recv returns b''
          /\ cpc' = AfterConnect
          /\ connected' = "true"
          /\ UNCHANGED cread
       \/ /\ broken[CliConn]               \* recv raises: return False
          /\ cpc' = "returned"
          /\ connected' = "false"
          /\ UNCHANGED cread
    /\ UNCHANGED <<cfgVars, csent, srvVars, envVars, hVars, mode, ssl_socket,
                   csock, ccloses, typed, ccmd, cresp>>

\* interactive_session: user_input = input(...).strip(); an empty line is
\* skipped
C_Input(line) ==
    /\ cpc = "input"
    /\ typed < MaxReqs
    /\ typed' = typed + 1
    /\ IF Strip(line) = <<>>
       THEN UNCHANGED <<cpc, ccmd>>
       ELSE ccmd' = Strip(line) /\ cpc' = "send"
    /\ UNCHANGED <<cfgVars, csent, srvVars, envVars, hVars, mode, ssl_socket,
                   csock, ccloses, cread, connected, cresp>>

\* disconnect(): if self.ssl_socket: self.ssl_socket.close()
Disconnect ==
    /\ IF ssl_socket = "set"
       THEN /\ csock' = "closed"
            /\ ccloses' = ccloses + 1
            /\ peerShut' = [peerShut EXCEPT ![CliConn] = TRUE]
       ELSE UNCHANGED <<csock, ccloses, peerShut>>
    /\ cpc' = "returned"

\* KeyboardInterrupt (or EOFError) at the prompt: except, then finally
\* self.disconnect()
C_InterruptInput ==
    /\ cpc = "input"
    /\ Disconnect
    /\ UNCHANGED <<cfgVars, csent, srvVars, cstate, peerCert, inbox, broken,
                   peerWrites, hVars, mode, ssl_socket, cread, typed, ccmd,
                   connected, cresp>>

\* send_message, first half: self.ssl_socket.send((message + '\n').encode());
\* an exception makes send_message return None
C_Send ==
    /\ cpc = "send"
    /\ csent' = Append(csent, ccmd)
    /\ \/ /\ ~broken[CliConn]
          /\ inbox' = [inbox EXCEPT ![CliConn] = Append(@, ccmd \o <<NL>>)]
          /\ cpc' = "recv"
          /\ UNCHANGED cresp
       \/ /\ broken[CliConn] \/ sock[CliConn] = "closed"
          /\ cresp' = Append(cresp, NoneResp)
          /\ cpc' = "after"
          /\ UNCHANGED inbox
    /\ UNCHANGED <<cfgVars, srvVars, cstate, peerCert, peerShut, broken,
                   peerWrites, hVars, mode, ssl_socket, csock, ccloses, cread,
                   typed, ccmd, connected>>

\* send_message, second half: response = self.ssl_socket.recv(1024).decode()
C_Recv ==
    /\ cpc = "recv"
    /\ \/ /\ ~broken[CliConn]
          /\ Available
          /\ cresp' = Append(cresp, NextWrite)
          /\ cread' = cread + 1
       \/ /\ ~broken[CliConn]
          /\ AtEof
          /\ cresp' = Append(cresp, <<>>)
          /\ UNCHANGED cread
       \/ /\ broken[CliConn]
          /\ cresp' = Append(cresp, NoneResp)
          /\ UNCHANGED cread
    /\ cpc' = "after"
    /\ UNCHANGED <<cfgVars, csent, srvVars, envVars, hVars, mode, ssl_socket,
                   csock, ccloses, typed, ccmd, connected>>

\* after send_message: single_command_mode prints and calls disconnect();
\* interactive_session prints, and on quit breaks into finally: disconnect()
C_After ==
    /\ cpc = "after"
    /\ IF mode = "single" \/ Lower(ccmd) = QuitWord
       THEN Disconnect
       ELSE cpc' = "input" /\ UNCHANGED <<csock, ccloses, peerShut>>
    /\ UNCHANGED <<cfgVars, csent, srvVars, cstate, peerCert, inbox, broken,
                   peerWrites, hVars, mode, ssl_socket, cread, typed, ccmd,
                   connected, cresp>>

Client ==
    \/ \E m \in {"help", "single", "interactive"} :
          \E cmd \in ArgvCommands : C_Start(m, cmd)
    \/ \E cert \in CertKinds : C_Connect(cert)
    \/ C_Handshake
    \/ C_Welcome
    \/ \E line \in TypedLines : C_Input(line)
    \/ C_InterruptInput
    \/ C_Send
    \/ C_Recv
    \/ C_After

\* a client is started against a server that is up, or against no server
InitClient ==
    /\ files = [n \in FileNames |-> "good"]
    /\ \/ /\ spc = "accept"
          /\ context = ServerContext
          /\ is_running = TRUE
          /\ listener = "listening"
       \/ /\ spc = "exit1"
          /\ context = NoContext
          /\ is_running = FALSE
          /\ listener = "none"
    /\ NoConnections
    /\ cpc = "main"
    /\ mode = "none"
    /\ ssl_socket = "None"
    /\ csock = "none"
    /\ ccloses = 0
    /\ cread = 0
    /\ typed = 0
    /\ ccmd = <<>>
    /\ connected = "none"
    /\ cresp = <<>>
    /\ csent = <<>>
    /\ cfiles \in [ClientFileNames -> FileStates]
    /\ ccontext = NoClientContext

NextClient ==
    \/ Client
    \/ Accept(CliConn)
    \/ AcceptError(CliConn)
    \/ Handler(CliConn)
    \/ TransportBreak(CliConn)
    \/ Interrupt
    \/ ServerFinally
    \/ ProcessExit

SpecClient == InitClient /\ [][NextClient]_vars

(***************************************************************************)
(* One session fed with request lines of every shape: the verbs in lower,  *)
(* upper and mixed case, with and without argument, with and without       *)
(* surrounding blanks, and lines that are no command.                      *)
(***************************************************************************)
LineBodies ==
    { <<"q", "u", "i", "t">>, <<"Q", "U", "I", "T">>, <<"Q", "u", "i", "t">>,
      <<"q", "u", "i", "t", " ", "x">>,
      <<"e", "c", "h", "o", " ", "h", "i">>,
      <<"E", "C", "H", "O", " ", "h", "i">>,
      <<"E", "c", "h", "o", " ", "h", "i">>,
      <<"e", "c", "h", "o", " ", " ", "a">>,
      <<"e", "c", "h", "o", " ", "H", "i">>,
      <<"e", "c", "h", "o">>, <<"E", "C", "H", "O">>,
      <<"e", "c", "h", "o", "x">>,
      <<"s", "t", "a", "t", "u", "s">>, <<"S", "T", "A", "T", "U", "S">>,
      <<"s", "t", "a", "t", "u", "s", "x">>,
      <<"h", "e", "l", "p">>, <<"H", "e", "l", "p">>,
      <<"f", "o", "o">>, <<"F", "o", "o", " ", "b">>,
      <<>>,
      <<BadByte>> }

Pads == {<<>>, <<" ">>}

\* the chunks the peer may write: a body between optional blanks, then the
\* line feed
DispatchLines ==
    {pre \o body \o post \o <<NL>> : pre \in Pads, body \in LineBodies, post \in Pads}

InitDispatch ==
    /\ files = [n \in FileNames |-> "good"]
    /\ spc = "accept"
    /\ context = ServerContext
    /\ is_running = TRUE
    /\ listener = "listening"
    /\ NoConnections
    /\ ClientIdle

NextDispatch ==
    \/ \E cert \in CertKinds : PeerConnect(CliConn, cert)
    \/ Accept(CliConn)
    \/ Handler(CliConn)
    \/ \E line \in DispatchLines : PeerSend(CliConn, line)
    \/ PeerShutdown(CliConn)
    \/ TransportBreak(CliConn)

SpecDispatch == InitDispatch /\ [][NextDispatch]_vars

(***************************************************************************)
(* One long session of requests that are not quit, to compare the answers  *)
(* a verb gets at different points of the session.                         *)
(***************************************************************************)
HistoryLines ==
    { StatusWord \o <<NL>>,
      <<"S", "t", "a", "t", "u", "s", NL>>,
      HelpWord \o <<NL>>,
      <<"e", "c", "h", "o", " ", "h", "i", NL>>,
      <<"f", "o", "o", NL>>,
      <<NL>> }

NextHistory ==
    \/ PeerConnect(CliConn, "valid")
    \/ Accept(CliConn)
    \/ Handler(CliConn)
    \/ \E line \in HistoryLines : PeerWrite(CliConn, line, MaxHistory)
    \/ PeerShutdown(CliConn)
    \/ TransportBreak(CliConn)

SpecHistory == InitDispatch /\ [][NextHistory]_vars

(***************************************************************************)
(* Properties of the server session.                                       *)
(***************************************************************************)
EndedStates == {"finally", "done", "killed"}

\* event i of connection c is the read of a request whose verb is quit
QuitReadAt(c, i) ==
    /\ log[c][i].ev = "recv"
    /\ ~IsEof(log[c][i].data)
    /\ Decodable(log[c][i].data)
    /\ Lower(Strip(log[c][i].data)) = QuitWord

\* C1: once a request whose verb is quit has been read, the only thing the
\* session still does on the connection is write the farewell line, once: it
\* reads nothing more and writes nothing more, whatever the peer writes
\* afterwards; the farewell is written unless the transport broke, and the
\* handler ends with the transport closed.
C1_QuitEndsSession ==
    \A c \in Conns : \A i \in 1..Len(log[c]) :
        QuitReadAt(c, i) =>
            /\ Len(log[c]) <= i + 1
            /\ Len(log[c]) = i + 1 => log[c][i + 1] = Send(Farewell)
            /\ hpc[c] \in {"dispatch"} \cup EndedStates
            /\ (hpc[c] \in EndedStates /\ Len(log[c]) = i)
                   => (broken[c] \/ hpc[c] = "killed")
            /\ hpc[c] = "done" => sock[c] = "closed" /\ closes[c] = 1

\* a session that ended on quit, farewell written, transport closed, with a
\* later write of the peer left unread and unanswered
C1_Witness ==
    \E c \in Conns :
        /\ hpc[c] = "done"
        /\ exitKind[c] = "quit"
        /\ sock[c] = "closed"
        /\ log[c][Len(log[c])] = Send(Farewell)
        /\ inbox[c] # <<>>

\* C2: a zero-length read is the last event of the session: nothing is
\* written for it, the handler leaves its loop, and ends with the transport
\* closed, whatever was read and written before.
C2_EofClosesSilently ==
    \A c \in Conns : \A i \in 1..Len(log[c]) :
        log[c][i] = Recv(<<>>) =>
            /\ i = Len(log[c])
            /\ hpc[c] \in EndedStates
            /\ hpc[c] = "done" => sock[c] = "closed"

\* a session that answered a request, then read zero bytes and closed
C2_Witness ==
    \E c \in Conns :
        /\ hpc[c] = "done"
        /\ sock[c] = "closed"
        /\ Len(log[c]) >= 4
        /\ log[c][Len(log[c])] = Recv(<<>>)
        /\ log[c][Len(log[c]) - 1].ev = "send"

\* the text of another connection's peer occurs in data
MentionsOther(c, data) ==
    \E d \in Conns \ {c} : \E k \in 1..Len(data) : data[k] = Uniq(d)

\* C3: every write on a connection is the welcome of that connection or
\* the reply to the request read just before on that same connection, and
\* no write on a connection carries the text only another connection's peer
\* sends.
C3_NoCrossTalk ==
    \A c \in Conns : \A i \in 1..Len(log[c]) :
        /\ ~MentionsOther(c, log[c][i].data)
        /\ log[c][i].ev = "send" =>
              IF i = 1 THEN log[c][i].data = WelcomeMsg(c)
              ELSE /\ log[c][i - 1].ev = "recv"
                   /\ Decodable(log[c][i - 1].data)
                   /\ log[c][i].data = Reply(Strip(log[c][i - 1].data))

\* two sessions in flight at once, each having got its own echo back
C3_Witness ==
    \E c \in Conns : \E d \in Conns \ {c} :
        /\ HandlerLive(c)
        /\ HandlerLive(d)
        /\ log[c] # <<>>
        /\ log[d] # <<>>
        /\ log[c][Len(log[c])] = Send(<<Uniq(c), NL>>)
        /\ log[d][Len(log[d])] = Send(<<Uniq(d), NL>>)

\* everything that belongs to the session of connection d
SessionState(d) ==
    <<cstate[d], peerCert[d], inbox[d], peerShut[d], broken[d], hpc[d],
      ssl_conn[d], sock[d], closes[d], message[d], exitKind[d], log[d]>>

HandlerFailed(c) == exitKind[c] \in {"handshake", "error"}

\* C4: a step in which the handler of a connection fails, and the cleanup
\* step that follows, change nothing of any other session and nothing of
\* the accept loop (its position, the running flag, the listening socket);
\* and with a failed handler the accept loop, unless interrupted, still
\* runs and accepts every pending connection.
C4_FailureIsContained ==
    /\ [][\A c \in Conns :
            (/\ hpc'[c] # hpc[c]
             /\ hpc'[c] \in {"finally", "done"}
             /\ exitKind'[c] \in {"handshake", "error"}) =>
                /\ \A d \in Conns \ {c} : SessionState(d)' = SessionState(d)
                /\ UNCHANGED <<spc, is_running, listener>>]_vars
    /\ []((spc = "accept" /\ \E c \in Conns : HandlerFailed(c)) =>
            /\ is_running
            /\ listener = "listening"
            /\ \A d \in Conns : cstate[d] = "pending" => ENABLED Accept(d))

\* one handler has failed and ended while another session is in flight and
\* the accept loop is still running
C4_Witness ==
    \E c \in Conns : \E d \in Conns \ {c} :
        /\ hpc[c] = "done"
        /\ exitKind[c] = "error"
        /\ hpc[d] = "recv"
        /\ Len(log[d]) >= 3
        /\ spc = "accept"
        /\ is_running

\* C5: for a peer that presents no certificate, or one that does not chain
\* to the trust anchor, the handshake fails: the handler never gets an
\* ssl_conn, and nothing (no welcome, no response) is written or read on the
\* connection.
C5_UnverifiedPeerGetsNothing ==
    \A c \in Conns :
        (cstate[c] = "accepted" /\ peerCert[c] # "valid") =>
            /\ ssl_conn[c] = "None"
            /\ log[c] = <<>>
            /\ hpc[c] \in {"wrap"} \cup EndedStates

\* the handlers of a peer without certificate and of a peer with an
\* untrusted one have both ended
C5_Witness ==
    \E c \in Conns : \E d \in Conns \ {c} :
        /\ peerCert[c] = "none"
        /\ peerCert[d] = "untrusted"
        /\ hpc[c] = "done"
        /\ hpc[d] = "done"
        /\ exitKind[c] = "handshake"
        /\ exitKind[d] = "handshake"

\* the server's own certificate and key, and the trust anchor, as files
OwnMaterialGood(f) == f["server.crt"] = "good" /\ f["server.key"] = "good"
AllMaterialGood(f) == OwnMaterialGood(f) /\ f["client.crt"] = "good"

NoNetworkActivity ==
    /\ listener = "none"
    /\ ~is_running
    /\ \A c \in Conns : cstate[c] = "unused" /\ hpc[c] = "none" /\ sock[c] = "none"

\* C6 as stated: construction of a server whose own certificate or key file
\* is missing or unreadable ends in the start-up failure.
C6_MissingMaterialIsFatal ==
    [][(spc = "ctor" /\ ~OwnMaterialGood(files)) => spc' = "exit1"]_vars

\* C6, amended: construction fails exactly when, after the generation that
\* a missing certificate or key triggers, the certificate, the key or the
\* trust anchor cannot be loaded; in particular it fails when certificate
\* and key both exist and one is unreadable.  The failure ends the process
\* before any network activity, and a server that does listen has loaded
\* its material.
C6_UnloadableMaterialIsFatal ==
    /\ [][spc = "ctor" =>
            /\ spc' = "exit1" <=> ~AllMaterialGood(files')
            /\ spc' \in {"exit1", "start"}
            /\ (~NeedsGeneration(files) /\ ~OwnMaterialGood(files))
                   => spc' = "exit1"]_vars
    /\ [][spc # "exit1"]_vars
    /\ [](spc = "exit1" => NoNetworkActivity)
    /\ [](listener # "none" => AllMaterialGood(files) /\ context = ServerContext)

\* the start-up failure on a certificate that exists and cannot be read
C6_Witness ==
    /\ spc = "exit1"
    /\ files["server.crt"] = "bad"
    /\ files["server.key"] = "good"
    /\ files["client.crt"] = "good"

\* C7: the transport handle of an accepted connection is never closed
\* twice, and when the handler has run to its end, on whichever path, it
\* has been closed exactly once.
C7_HandlerClosesOnce ==
    \A c \in Conns :
        /\ closes[c] <= 1
        /\ hpc[c] = "done" => closes[c] = 1 /\ sock[c] = "closed"

\* one handler ended on a failed handshake, another because the running
\* flag was cleared
C7_Witness ==
    \E c \in Conns : \E d \in Conns \ {c} :
        /\ hpc[c] = "done"
        /\ exitKind[c] = "handshake"
        /\ hpc[d] = "done"
        /\ exitKind[d] = "stopped"

\* C9: when the server process has exited, every handler that was started
\* has run to its end (its session finished or closed by it).
C9_ExitWaitsForHandlers ==
    spc = "exited" => \A c \in Conns : hpc[c] \in {"none", "done"}

\* C9, first half: after the interrupt no connection is accepted
C9_NoAcceptAfterInterrupt ==
    [][(spc \in {"finally", "returned", "exited"}) =>
          (\A d \in Conns : cstate'[d] = "accepted" => cstate[d] = "accepted")]_vars

\* the step is one of the handler thread of connection c
HandlerStep(c) ==
    /\ hpc[c] # "none"
    /\ hpc'[c] # hpc[c]
    /\ hpc'[c] # "killed"

\* C20: no step of a handler writes the running flag, nor anything else of
\* the server or of another session; the flag changes only in start_server,
\* which sets it when it starts and clears it when it exits.
C20_OnlyStartServerWritesFlag ==
    /\ [][\A c \in Conns :
            HandlerStep(c) =>
                /\ is_running' = is_running
                /\ UNCHANGED <<files, spc, context, listener>>
                /\ \A d \in Conns \ {c} :
                       SessionState(d)' = SessionState(d)]_vars
    /\ [][is_running' # is_running =>
            \/ spc = "start" /\ spc' = "accept" /\ is_running'
            \/ spc = "finally" /\ spc' = "returned" /\ ~is_running']_vars

\* start_server has set and cleared the flag, and a handler that had served
\* a request read it as cleared, left its loop and ended
C20_Witness ==
    /\ spc = "returned"
    /\ ~is_running
    /\ \E c \in Conns :
          /\ hpc[c] = "done"
          /\ exitKind[c] = "stopped"
          /\ Len(log[c]) >= 3

(***************************************************************************)
(* Properties of the dispatch.                                             *)
(***************************************************************************)
\* the line of a received chunk: the chunk without its line feed
RawLine(data) ==
    IF data # <<>> /\ data[Len(data)] = NL
    THEN SubSeq(data, 1, Len(data) - 1)
    ELSE data

Verbs == {StatusWord, HelpWord, QuitWord}

\* event i of connection c is the read of a decodable request and event
\* i + 1 is the write that answers it
Answered(c, i) ==
    /\ i + 1 <= Len(log[c])
    /\ log[c][i].ev = "recv"
    /\ log[c][i + 1].ev = "send"

EchoRequestAt(c, i) ==
    /\ Answered(c, i)
    /\ Decodable(log[c][i].data)
    /\ StartsWith(Lower(RawLine(log[c][i].data)), EchoPrefix)

\* C11: the response to a request `echo <text>` is exactly <text> and one
\* line break, <text> being everything of the received line after the first
\* space that follows the verb, leading and trailing spaces included.
C11_EchoRoundTrip ==
    \A c \in Conns : \A i \in 1..Len(log[c]) :
        EchoRequestAt(c, i) =>
            log[c][i + 1].data = Drop(RawLine(log[c][i].data), 5) \o <<NL>>

\* C11, what the code does instead: the text comes back without its
\* trailing whitespace (its leading blanks kept), and a text of blanks only
\* is no echo request at all.
C11_EchoKeepsStrippedText ==
    \A c \in Conns : \A i \in 1..Len(log[c]) :
        EchoRequestAt(c, i) =>
            LET text == Drop(RawLine(log[c][i].data), 5)
            IN IF RStrip(text) = <<>>
               THEN log[c][i + 1].data = UnknownMsg(RStrip(RawLine(log[c][i].data)))
               ELSE log[c][i + 1].data = RStrip(text) \o <<NL>>

\* C12: each of the four verbs is recognised in every spelling of upper and
\* lower case: the response is the one of the lower-case spelling (the
\* farewell, the status text, the help text, the echoed text), and so is the
\* transition: the loop is left after quit and continued after the others.
C12_CaseInsensitiveDispatch ==
    /\ [](\A c \in Conns : \A i \in 1..Len(log[c]) :
            (Answered(c, i) /\ Decodable(log[c][i].data)) =>
                LET line == Strip(log[c][i].data)
                    resp == log[c][i + 1].data
                IN /\ Lower(line) = QuitWord =>
                          resp = Farewell /\ Len(log[c]) = i + 1
                   /\ Lower(line) = StatusWord => resp = StatusMsg
                   /\ Lower(line) = HelpWord => resp = HelpMsg
                   /\ StartsWith(Lower(line), EchoPrefix) =>
                          resp = Drop(line, 5) \o <<NL>>)
    /\ [][\A c \in Conns :
            (hpc[c] = "dispatch" /\ log'[c] # log[c]) =>
                IF Lower(message[c]) = QuitWord
                THEN hpc'[c] = "finally" /\ exitKind'[c] = "quit"
                ELSE hpc'[c] = "loop" /\ exitKind'[c] = exitKind[c]]_vars

\* one session in which `ECHO hi` and `Echo hi` both got `hi` and a line
\* break
C12_Witness ==
    \E c \in Conns : \E i, j \in 1..Len(log[c]) :
        /\ Answered(c, i)
        /\ Answered(c, j)
        /\ log[c][i].data = <<"E", "C", "H", "O", " ", "h", "i", NL>>
        /\ log[c][j].data = <<"E", "c", "h", "o", " ", "h", "i", NL>>
        /\ log[c][i + 1].data = <<"h", "i", NL>>
        /\ log[c][j + 1].data = <<"h", "i", NL>>

\* event i of connection c reads a request whose line, stripped and in
\* lower case, is the verb, and event i + 1 answers it
VerbAt(c, i, verb) ==
    /\ Answered(c, i)
    /\ Decodable(log[c][i].data)
    /\ Lower(Strip(log[c][i].data)) = verb

\* C13: within one session any two requests for status get the same bytes
\* back, and so do any two requests for help, whatever was requested before
\* and between them.
C13_StatusHelpHistoryFree ==
    \A c \in Conns : \A i, j \in 1..Len(log[c]) :
        \A verb \in {StatusWord, HelpWord} :
            (VerbAt(c, i, verb) /\ VerbAt(c, j, verb))
                => log[c][i + 1].data = log[c][j + 1].data

\* status as the first and as the fourth request of a session, with a help
\* and an echo request between the two
C13_Witness ==
    \E c \in Conns :
        /\ Len(log[c]) >= 9
        /\ VerbAt(c, 2, StatusWord)
        /\ VerbAt(c, 4, HelpWord)
        /\ StartsWith(log[c][6].data, EchoPrefix)
        /\ VerbAt(c, 8, StatusWord)
        /\ log[c][9].data = StatusMsg

\* event i of connection c is a read of bytes that are not valid UTF-8
UndecodableReadAt(c, i) ==
    /\ log[c][i].ev = "recv"
    /\ ~IsEof(log[c][i].data)
    /\ ~Decodable(log[c][i].data)

\* C14: a request of undecodable bytes is handled as an unknown command:
\* the session goes on to answer it, the answer is the Unknown-command
\* response, and the session does not end on it (unless the transport broke
\* or the process exited).
C14_UndecodableIsUnknown ==
    \A c \in Conns : \A i \in 1..Len(log[c]) :
        UndecodableReadAt(c, i) =>
            /\ exitKind[c] = "error" => broken[c]
            /\ (i = Len(log[c]) /\ hpc[c] \in EndedStates)
                   => (broken[c] \/ hpc[c] = "killed")
            /\ i < Len(log[c]) =>
                   /\ log[c][i + 1].ev = "send"
                   /\ StartsWith(log[c][i + 1].data, <<"Unknown command: ">>)

\* C14, what the code does instead: the read of undecodable bytes is the
\* last event of the session; nothing is written for it, the handler leaves
\* its loop through the error path and closes the transport.
C14_UndecodableEndsSession ==
    \A c \in Conns : \A i \in 1..Len(log[c]) :
        UndecodableReadAt(c, i) =>
            /\ i = Len(log[c])
            /\ exitKind[c] = "error"
            /\ hpc[c] \in EndedStates
            /\ hpc[c] = "done" => sock[c] = "closed"

\* event i of connection c is a read of non-zero length
RequestReadAt(c, i) == log[c][i].ev = "recv" /\ ~IsEof(log[c][i].data)

\* C18: every read of non-zero length is followed by exactly one write
\* before the next read: the next event of the session is a write and the
\* one after it, if any, is a read; and a request that has no write yet is
\* about to get it, unless the transport is broken.
C18_EveryRequestAnsweredOnce ==
    \A c \in Conns : \A i \in 1..Len(log[c]) :
        RequestReadAt(c, i) =>
            /\ i < Len(log[c]) => log[c][i + 1].ev = "send"
            /\ i + 2 <= Len(log[c]) => log[c][i + 2].ev = "recv"
            /\ i = Len(log[c]) => (hpc[c] = "dispatch" \/ broken[c])

\* C18, the part that holds: every decodable read of non-zero length, a
\* blank or empty line included, gets exactly one write before the next
\* read, unless the transport broke or the process exited first.
C18_DecodableAnsweredOnce ==
    \A c \in Conns : \A i \in 1..Len(log[c]) :
        (RequestReadAt(c, i) /\ Decodable(log[c][i].data)) =>
            /\ i < Len(log[c]) =>
                   log[c][i + 1] = Send(Reply(Strip(log[c][i].data)))
            /\ i + 2 <= Len(log[c]) => log[c][i + 2].ev = "recv"
            /\ i = Len(log[c]) =>
                   (hpc[c] = "dispatch" \/ broken[c] \/ hpc[c] = "killed")

\* the echo verb without its space
EchoWord == SubSeq(EchoPrefix, 1, 4)

\* event i of connection c reads the line `echo`, or `echo` and one space,
\* and event i + 1 answers it
BareEchoAt(c, i) ==
    /\ Answered(c, i)
    /\ RawLine(log[c][i].data) \in {EchoWord, EchoPrefix}

\* C19: the echo verb without an argument is answered with an empty line,
\* that is with one line break and nothing else.
C19_BareEchoGetsEmptyLine ==
    \A c \in Conns : \A i \in 1..Len(log[c]) :
        BareEchoAt(c, i) => log[c][i + 1].data = <<NL>>

\* C19, what the code does instead: the stripped line is `echo`, which does
\* not start with the verb and a space, and gets the Unknown-command
\* response.
C19_BareEchoIsUnknown ==
    \A c \in Conns : \A i \in 1..Len(log[c]) :
        BareEchoAt(c, i) =>
            log[c][i + 1].data =
                <<"Unknown command: ", "e", "c", "h", "o",
                  ". Type 'help' for available commands.", NL>>

(***************************************************************************)
(* Properties of the client.                                               *)
(***************************************************************************)
\* C8: when main has returned from an invocation that opened a transport,
\* the transport handle has been closed exactly once.
C8_ClientClosesOnce ==
    (cpc = "returned" /\ csock # "none") => (ccloses = 1 /\ csock = "closed")

\* C8, the paths on which it holds: after connect_to_server returned True
\* (single-shot completion, send or receive error, quit, interrupt at the
\* prompt) the handle is closed exactly once; it is never closed twice.
C8_ClosedOnceWhenConnected ==
    /\ ccloses <= 1
    /\ (cpc = "returned" /\ connected = "true") => (ccloses = 1 /\ csock = "closed")

\* C8, the paths on which it fails: after connect_to_server returned False
\* the handle that was opened is left open.
C8_LeftOpenWhenNotConnected ==
    (cpc = "returned" /\ connected = "false") => (ccloses = 0 /\ csock = "open")

\* the caller asked for verification to be switched off: an argument of
\* that name is among those it gave, and it is false
ExplicitOptOut(args) ==
    "verify_peer" \in DOMAIN args /\ args.verify_peer = "False"

VerificationOff(ctx) ==
    ctx.verify_mode = "CERT_NONE" \/ ctx.check_hostname = "False"

\* C15: a client context that does not verify the server's certificate, or
\* does not match the host name, is built only for a caller that asked for
\* it explicitly.
C15_VerificationOffOnlyOnRequest ==
    (ccontext # NoClientContext /\ VerificationOff(ccontext))
        => ExplicitOptOut(MainArgs)

\* C15, what the code does instead: every context the client builds has
\* verification and host name matching switched off.
C15_VerificationAlwaysOff ==
    ccontext # NoClientContext =>
        ccontext.verify_mode = "CERT_NONE" /\ ccontext.check_hostname = "False"

\* the last call of send_message got nothing: the peer had disconnected
\* (zero-length read) or the send or the receive raised
DeadExchange ==
    /\ cresp # <<>>
    /\ cresp[Len(cresp)] \in {<<>>, NoneResp}

\* C16: in interactive mode, once a call of send_message has met a
\* disconnected peer or a transport error, the client does not go back to
\* its prompt: it leaves the request loop, and has closed the transport when
\* it has returned.
C16_DeadSessionEndsLoop ==
    (mode = "interactive" /\ DeadExchange) =>
        /\ cpc \in {"after", "returned"}
        /\ cpc = "returned" => csock = "closed"

\* C16, what the code does instead: after such a call, unless the line was
\* quit, the client goes back to the prompt with the transport still open.
C16_DeadSessionKeepsLooping ==
    [][(/\ cpc = "after"
        /\ cpc' # cpc
        /\ mode = "interactive"
        /\ DeadExchange
        /\ Lower(ccmd) # QuitWord)
          => (cpc' = "input" /\ csock' = "open" /\ ccloses' = 0)]_vars

\* the client object has been built
ClientBuilt == cpc # "main" /\ mode \in {"single", "interactive"}

\* C17: a client whose certificate or key is missing or cannot be loaded is
\* still built and goes on to connect; it presents no certificate, and its
\* context still verifies the certificate of the server.
C17_NoCertKeepsServerAuth ==
    (ClientBuilt /\ ~ClientCertLoaded(cfiles)) =>
        /\ ccontext # NoClientContext
        /\ ccontext.cert = "none"
        /\ cstate[CliConn] # "unused" => peerCert[CliConn] = "none"
        /\ ccontext.verify_mode = "CERT_REQUIRED"

\* C17, the part that holds: the missing or unloadable certificate is no
\* error; the client is built, connects, and presents no certificate.
C17_NoCertIsNoError ==
    /\ [](cpc # "exit1")
    /\ []((ClientBuilt /\ ~ClientCertLoaded(cfiles)) =>
            /\ ccontext # NoClientContext
            /\ ccontext.cert = "none"
            /\ cstate[CliConn] # "unused" => peerCert[CliConn] = "none")
    /\ [][(cpc = "main" /\ cpc' # cpc /\ mode' # "help") => cpc' = "connect"]_vars

\* the k-th call of send_message returned a text the server wrote (not
\* None, and not the empty text of a zero-length read)
RespondedAt(k) == k <= Len(cresp) /\ cresp[k] \notin {<<>>, NoneResp}

\* what the server answers to a request line sent as one whole request
ResponseTo(line) == Reply(ParseMessage(line \o <<NL>>))

\* the server writes its welcome once, first of all, and the client has
\* consumed it before it sends its first request
WelcomeFirst ==
    /\ \A i \in 1..Len(log[CliConn]) :
          log[CliConn][i] = Send(WelcomeMsg(CliConn)) <=> i = 1
    /\ (csent # <<>> /\ Sends(CliConn) # <<>>) => cread >= 1

\* C21: client and server stay in lock-step: one welcome, written before
\* any read and consumed by connect_to_server before any request, and then
\* what send_message returns for the k-th request is the server's response
\* to that request.
C21_LockStep ==
    /\ WelcomeFirst
    /\ \A k \in 1..Len(cresp) :
          RespondedAt(k) => cresp[k] = ResponseTo(csent[k])

\* every request sent so far, and every write of the server so far, fits
\* into one read of 1024 bytes
FitsOneRead ==
    /\ \A k \in 1..Len(csent) : TextSize(csent[k] \o <<NL>>) <= RecvSize
    /\ \A i \in 1..Len(log[CliConn]) :
          log[CliConn][i].ev = "send" =>
              TextSize(log[CliConn][i].data) <= RecvSize

\* C21, the part that holds: the welcome comes first and is consumed
\* first, and lock-step holds as long as every request and every response
\* fits into one read.
C21_LockStepWhenFitsOneRead ==
    /\ WelcomeFirst
    /\ FitsOneRead =>
          \A k \in 1..Len(cresp) :
              RespondedAt(k) => cresp[k] = ResponseTo(csent[k])

\* every write of the server fits into one read of the client
C21_WritesFitOneRead ==
    \A i \in 1..Len(log[CliConn]) :
        log[CliConn][i].ev = "send" =>
            TextSize(log[CliConn][i].data) <= RecvSize

=============================================================================
